---- MODULE Spec2Model ----
(***************************************************************************)
(* Recipe API: RecipeViewSet, TagViewSet (app/recipe/views.py) and the     *)
(* serializers they use (app/recipe/serializers.py), over the Recipe, Tag  *)
(* and Ingredient tables.  One action per HTTP request; the database is    *)
(* in autocommit mode, so each ORM call of a handler is durable as soon as *)
(* it returns, also when a later call of the same handler raises.  The     *)
(* client is the tests' APIClient: it sends a request, takes the response, *)
(* and only then sends the next one.                                       *)
(***************************************************************************)
EXTENDS Integers, Sequences, FiniteSets, TLC

\* ---------------------------------------------------------------- bounds
MaxRecipes == 2
MaxTags == 2

\* ---------------------------------------------------------------- inputs
Users == {"u1", "u2"}
Anon == "anon"
Requesters == Users \cup {Anon}
Names == {"a", "b"}
Titles == {"t1", "t2"}
Minutes == {10}
Prices == {5}
RecipeIds == 1..MaxRecipes
TagIds == 1..MaxTags

VARIABLES recipes, tags, ingredients, nextRecipeId, nextTagId, last

vars == <<recipes, tags, ingredients, nextRecipeId, nextTagId, last>>

\* ------------------------------------------------------------ serializers
TagSerializerFields == <<"id", "name">>

RecipeSerializerFields ==
    <<"id", "title", "time_minutes", "price", "link", "tags">>

\* Faulty variant of RecipeDetailSerializerFields: user is declared too.
DetailFieldsWithUser == RecipeSerializerFields \o <<"description", "user">>

RecipeDetailSerializerFields == RecipeSerializerFields \o <<"description">>

Range(s) == {s[i] : i \in DOMAIN s}

ReadOnlyFields == {"id"}

\* Columns of Recipe without which a create or a full update is rejected.
RequiredFields == {"title", "time_minutes", "price"}

\* The keys of the request body a serializer with this field list keeps.
Writable(fields) == Range(fields) \ ReadOnlyFields

\* serializer.validated_data: the body restricted to the declared fields.
validated_data(fields, data) ==
    [k \in DOMAIN data \cap Writable(fields) |-> data[k]]

\* serializer.is_valid(): required fields may be missing only when partial.
is_valid(fields, required, data, partial) ==
    partial \/ (required \cap Writable(fields)) \subseteq DOMAIN data

\* ------------------------------------------------------------- the tables
NoRows == <<>>

Insert(table, id, row) == (id :> row) @@ table

Delete(table, id) == [k \in DOMAIN table \ {id} |-> table[k]]

RecipeColumns ==
    {"user", "title", "time_minutes", "price", "link", "description",
     "tags", "ingredients"}

\* link and description may be left out of a create (blank columns); a new
\* row has no associations.
ColumnDefault(k) ==
    CASE k \in {"tags", "ingredients"} -> {}
      [] OTHER -> ""

\* Recipe.objects.create(**validated_data)
NewRecipeRow(vd) ==
    [k \in RecipeColumns |-> IF k \in DOMAIN vd THEN vd[k] ELSE ColumnDefault(k)]

\* for attr, value in validated_data.items(): setattr(instance, attr, value)
SetAttrs(row, vd) ==
    [k \in DOMAIN row |-> IF k \in DOMAIN vd THEN vd[k] ELSE row[k]]

\* validated_data.pop(key, ...): the rest of the dict
Pop(vd, key) == [k \in DOMAIN vd \ {key} |-> vd[k]]

\* The database a handler works on, and whether an exception has escaped.
DB == [recipes |-> recipes, tags |-> tags,
       nextRecipeId |-> nextRecipeId, nextTagId |-> nextTagId,
       raised |-> FALSE]

\* Faulty variant of get_or_create: the lookup leaves the user out.
get_or_create_by_name(db, auth_user, name) ==
    LET matches == {t \in DOMAIN db.tags : db.tags[t].name = name}
    IN  IF matches # {}
          THEN [db |-> db, obj |-> CHOOSE t \in matches : TRUE]
        ELSE [db |-> [db EXCEPT
                        !.tags = Insert(db.tags, db.nextTagId,
                                        [user |-> auth_user, name |-> name]),
                        !.nextTagId = db.nextTagId + 1],
              obj |-> db.nextTagId]

\* The constraints the Tag table declares over its rows: none; (user, name)
\* is kept unique by get_or_create alone.
TagConstraints(tbl) == TRUE

\* Tag.objects.get_or_create(user=auth_user, name=name): the one matching
\* row; a new row when none matches; MultipleObjectsReturned when several do.
get_or_create(db, auth_user, name) ==
    LET matches == {t \in DOMAIN db.tags :
                      db.tags[t].user = auth_user /\ db.tags[t].name = name}
    IN  IF Cardinality(matches) = 1
          THEN [db |-> db, obj |-> CHOOSE t \in matches : TRUE]
        ELSE IF matches = {}
          THEN [db |-> [db EXCEPT
                          !.tags = Insert(db.tags, db.nextTagId,
                                          [user |-> auth_user, name |-> name]),
                          !.nextTagId = db.nextTagId + 1],
                obj |-> db.nextTagId]
        ELSE [db |-> [db EXCEPT !.raised = TRUE], obj |-> 0]

\* recipe.tags.add(tag_obj)
AddTag(db, rid, t) ==
    [db EXCEPT !.recipes[rid]["tags"] = @ \cup {t}]

\* Faulty variant of ClearTags: instance.tags.all().delete(), which deletes
\* the Tag rows themselves, and with them their rows of every recipe.tags.
ClearTagsDeleting(db, rid) ==
    LET gone == db.recipes[rid]["tags"]
    IN  [db EXCEPT
           !.tags = [t \in DOMAIN @ \ gone |-> @[t]],
           !.recipes = [r \in DOMAIN @ |-> [@[r] EXCEPT !["tags"] = @ \ gone]]]

\* instance.tags.clear()
ClearTags(db, rid) ==
    [db EXCEPT !.recipes[rid]["tags"] = {}]

RECURSIVE _get_or_create_tags(_, _, _, _)
_get_or_create_tags(db, auth_user, tagseq, rid) ==
    IF tagseq = <<>> THEN db
    ELSE LET g == get_or_create(db, auth_user, Head(tagseq))
         IN  IF g.db.raised THEN g.db
             ELSE _get_or_create_tags(AddTag(g.db, rid, g.obj), auth_user,
                                      Tail(tagseq), rid)

\* RecipeSerializer.create; validated_data carries user from perform_create.
create(db, auth_user, vd) ==
    LET tagseq == IF "tags" \in DOMAIN vd THEN vd["tags"] ELSE <<>>
        rid == db.nextRecipeId
        db1 == [db EXCEPT
                  !.recipes = Insert(db.recipes, rid,
                                     NewRecipeRow(Pop(vd, "tags"))),
                  !.nextRecipeId = rid + 1]
    IN  _get_or_create_tags(db1, auth_user, tagseq, rid)

\* Faulty variant of update: validated_data.pop('tags', []), so a body without
\* the tags key clears the recipe's tags as an empty list does.
update_clearing(db, auth_user, rid, vd) ==
    LET tagseq == IF "tags" \in DOMAIN vd THEN vd["tags"] ELSE <<>>
        db1 == _get_or_create_tags(ClearTags(db, rid), auth_user, tagseq, rid)
    IN  IF db1.raised THEN db1
        ELSE [db1 EXCEPT !.recipes[rid] = SetAttrs(@, Pop(vd, "tags"))]

\* RecipeSerializer.update
update(db, auth_user, rid, vd) ==
    LET db1 == IF "tags" \in DOMAIN vd
                 THEN _get_or_create_tags(ClearTags(db, rid), auth_user,
                                          vd["tags"], rid)
                 ELSE db
    IN  IF db1.raised THEN db1
        ELSE [db1 EXCEPT !.recipes[rid] = SetAttrs(@, Pop(vd, "tags"))]

\* ------------------------------------------------------------------ views
\* Faulty variant of has_permission: everyone is let in.
allow_any(u) == TRUE

\* authentication_classes = (TokenAuthentication,),
\* permission_classes = (IsAuthenticated,)
has_permission(u) == u \in Users

\* Faulty variant of RecipeQueryset: no filter by user.
RecipeQuerysetAll(db, u) == DOMAIN db.recipes

\* RecipeViewSet.get_queryset: filter(user=self.request.user)
RecipeQueryset(db, u) == {r \in DOMAIN db.recipes : db.recipes[r]["user"] = u}

\* TagViewSet.get_queryset: filter(user=self.request.user)
TagQueryset(db, u) == {t \in DOMAIN db.tags : db.tags[t].user = u}

\* Faulty variant of get_serializer_class: the detail serializer always.
get_serializer_class_detail(action) == RecipeDetailSerializerFields

\* RecipeViewSet.get_serializer_class
get_serializer_class(action) ==
    IF action = "list" THEN RecipeSerializerFields
    ELSE RecipeDetailSerializerFields

\* Faulty variant of OrderByIdDesc: order_by('id')
RECURSIVE OrderByIdAsc(_)
OrderByIdAsc(S) ==
    IF S = {} THEN <<>>
    ELSE LET m == CHOOSE x \in S : \A y \in S : x <= y
         IN  <<m>> \o OrderByIdAsc(S \ {m})

\* order_by('-id')
RECURSIVE OrderByIdDesc(_)
OrderByIdDesc(S) ==
    IF S = {} THEN <<>>
    ELSE LET m == CHOOSE x \in S : \A y \in S : y <= x
         IN  <<m>> \o OrderByIdDesc(S \ {m})

\* The collation of tag names.
NameKey(n) == CASE n = "a" -> 1 [] n = "b" -> 2

\* order_by('-name'): every order of the rows that descends by name; rows of
\* equal name come in an order the database chooses.
OrderByNameDesc(db, S) ==
    {s \in [1..Cardinality(S) -> S] :
        /\ \A i, j \in DOMAIN s : i < j =>
              /\ s[i] # s[j]
              /\ NameKey(db.tags[s[i]].name) >= NameKey(db.tags[s[j]].name)}

\* TagSerializer(tag).data
TagRepresentation(db, t) == [id |-> t, name |-> db.tags[t].name]

\* serializer.data of a recipe under the given field list
RecipeRepresentation(fields, db, r) ==
    [f \in Range(fields) |->
        CASE f = "id" -> r
          [] f = "tags" -> {TagRepresentation(db, t) : t \in db.recipes[r]["tags"]}
          [] OTHER -> db.recipes[r][f]]

Request(view, action, u, id, data) ==
    [view |-> view, action |-> action, user |-> u, id |-> id, data |-> data]

\* The body of a request the view answers before it reads request.data
\* (permission denied, object not found); the answer is the same for every body.
Unread == <<>>

NoRequest == Request("none", "none", Anon, 0, Unread)

\* No response is on its way to the client.
NoResponse == [req |-> NoRequest, status |-> 0, body |-> <<>>]

\* The client has one request under way at a time.
Idle == last = NoResponse

\* The handler returns: the database it leaves and the response it sends.
Respond(req, db, status, body) ==
    /\ db.nextRecipeId <= MaxRecipes + 1
    /\ db.nextTagId <= MaxTags + 1
    /\ recipes' = db.recipes
    /\ tags' = db.tags
    /\ nextRecipeId' = db.nextRecipeId
    /\ nextTagId' = db.nextTagId
    /\ UNCHANGED ingredients
    /\ last' = [req |-> req, status |-> status, body |-> body]

\* RecipeViewSet.perform_create: serializer.save(user=self.request.user)
perform_create(db, u, vd) == create(db, u, ("user" :> u) @@ vd)

\* ---------------------------------------------------------- request bodies
Opt(k, V) == {<<>>} \cup {k :> v : v \in V}

\* The tag lists a body may carry: empty, one name, two names, one name twice.
TagLists == {<<>>, <<"a">>, <<"b">>, <<"a", "b">>, <<"a", "a">>}

IngredientLists == {<<>>, <<"a">>}

\* Bodies of scalar fields alone: each of the required fields there or not.
ScalarBodies ==
    {t @@ m @@ p :
        t \in Opt("title", Titles), m \in Opt("time_minutes", Minutes),
        p \in Opt("price", Prices)}

CompleteBody == ("title" :> "t1") @@ ("time_minutes" :> 10) @@ ("price" :> 5)

\* The other bodies: nothing or every required field, and one of user, tags,
\* ingredients.
RecipePayloads ==
    ScalarBodies \cup
    {s @@ x : s \in {<<>>, CompleteBody},
              x \in Opt("user", Users) \cup Opt("tags", TagLists)
                    \cup Opt("ingredients", IngredientLists)}

TagPayloads == Opt("name", Names)

\* ----------------------------------------------------------- RecipeViewSet
\* GET /recipes/
RecipeList(u) ==
    /\ Idle
    /\ LET req == Request("recipe", "list", u, 0, <<>>)
           ids == OrderByIdDesc(RecipeQueryset(DB, u))
           fields == get_serializer_class("list")
       IN  IF ~has_permission(u) THEN Respond(req, DB, 401, <<>>)
           ELSE Respond(req, DB, 200,
                        [n \in DOMAIN ids |->
                            RecipeRepresentation(fields, DB, ids[n])])

\* GET /recipes/{id}/
RecipeRetrieve(u, id) ==
    /\ Idle
    /\ LET req == Request("recipe", "retrieve", u, id, <<>>)
           fields == get_serializer_class("retrieve")
       IN  IF ~has_permission(u) THEN Respond(req, DB, 401, <<>>)
           ELSE IF id \notin RecipeQueryset(DB, u)
             THEN Respond(req, DB, 404, <<>>)
           ELSE Respond(req, DB, 200, <<RecipeRepresentation(fields, DB, id)>>)

\* POST /recipes/: an exception that escapes the serializer answers 500.
RecipeCreate(u) ==
    /\ Idle
    /\ IF ~has_permission(u)
         THEN Respond(Request("recipe", "create", u, 0, Unread), DB, 401, <<>>)
       ELSE \E data \in RecipePayloads :
         LET req == Request("recipe", "create", u, 0, data)
             fields == get_serializer_class("create")
             vd == validated_data(fields, data)
         IN  IF ~is_valid(fields, RequiredFields, data, FALSE)
               THEN Respond(req, DB, 400, <<>>)
             ELSE \E db \in {perform_create(DB, u, vd)} :
                    IF db.raised THEN Respond(req, db, 500, <<>>)
                    ELSE Respond(req, db, 201,
                           <<RecipeRepresentation(fields, db, DB.nextRecipeId)>>)

\* PUT /recipes/{id}/ and, when partial, PATCH /recipes/{id}/
RecipeUpdate(u, id, partial) ==
    /\ Idle
    /\ LET action == IF partial THEN "partial_update" ELSE "update"
           unread == Request("recipe", action, u, id, Unread)
       IN
       IF ~has_permission(u) THEN Respond(unread, DB, 401, <<>>)
       ELSE IF id \notin RecipeQueryset(DB, u) THEN Respond(unread, DB, 404, <<>>)
       ELSE \E data \in RecipePayloads :
         LET req == Request("recipe", action, u, id, data)
             fields == get_serializer_class(action)
             vd == validated_data(fields, data)
         IN  IF ~is_valid(fields, RequiredFields, data, partial)
               THEN Respond(req, DB, 400, <<>>)
             ELSE \E db \in {update(DB, u, id, vd)} :
                    IF db.raised THEN Respond(req, db, 500, <<>>)
                    ELSE Respond(req, db, 200,
                                 <<RecipeRepresentation(fields, db, id)>>)

\* DELETE /recipes/{id}/
RecipeDestroy(u, id) ==
    /\ Idle
    /\ LET req == Request("recipe", "destroy", u, id, <<>>)
       IN  IF ~has_permission(u) THEN Respond(req, DB, 401, <<>>)
           ELSE IF id \notin RecipeQueryset(DB, u)
             THEN Respond(req, DB, 404, <<>>)
           ELSE Respond(req, [DB EXCEPT !.recipes = Delete(@, id)], 204, <<>>)

\* -------------------------------------------------------------- TagViewSet
\* GET /tags/
TagList(u) ==
    /\ Idle
    /\ LET req == Request("tag", "list", u, 0, <<>>)
       IN  IF ~has_permission(u) THEN Respond(req, DB, 401, <<>>)
           ELSE \E ids \in OrderByNameDesc(DB, TagQueryset(DB, u)) :
                  Respond(req, DB, 200,
                          [n \in DOMAIN ids |-> TagRepresentation(DB, ids[n])])

\* PUT /tags/{id}/ and, when partial, PATCH /tags/{id}/ (UpdateModelMixin
\* over TagSerializer): the validated name is set and saved; a save the
\* table's constraints refuse raises.
TagUpdate(u, id, partial) ==
    /\ Idle
    /\ LET action == IF partial THEN "partial_update" ELSE "update"
           unread == Request("tag", action, u, id, Unread)
       IN
       IF ~has_permission(u) THEN Respond(unread, DB, 401, <<>>)
       ELSE IF id \notin TagQueryset(DB, u) THEN Respond(unread, DB, 404, <<>>)
       ELSE \E data \in TagPayloads :
         LET req == Request("tag", action, u, id, data)
             vd == validated_data(TagSerializerFields, data)
             db == [DB EXCEPT !.tags[id] = SetAttrs(@, vd)]
         IN  IF ~is_valid(TagSerializerFields, {"name"}, data, partial)
               THEN Respond(req, DB, 400, <<>>)
             ELSE IF ~TagConstraints(db.tags) THEN Respond(req, DB, 500, <<>>)
             ELSE Respond(req, db, 200, <<TagRepresentation(db, id)>>)

\* DELETE /tags/{id}/ (DestroyModelMixin): the row goes, and with it its
\* rows of recipe.tags.
TagDestroy(u, id) ==
    /\ Idle
    /\ LET req == Request("tag", "destroy", u, id, <<>>)
           db == [DB EXCEPT
                    !.tags = Delete(@, id),
                    !.recipes = [r \in DOMAIN @ |->
                                   [@[r] EXCEPT !["tags"] = @ \ {id}]]]
       IN  IF ~has_permission(u) THEN Respond(req, DB, 401, <<>>)
           ELSE IF id \notin TagQueryset(DB, u)
             THEN Respond(req, DB, 404, <<>>)
           ELSE Respond(req, db, 204, <<>>)

\* ------------------------------------------------------------- the client
\* res = self.client.get(...) and the like: the client takes the response.
Receive ==
    /\ last # NoResponse
    /\ last' = NoResponse
    /\ UNCHANGED <<recipes, tags, ingredients, nextRecipeId, nextTagId>>

\* ---------------------------------------------------------- specification
Init ==
    /\ recipes = NoRows
    /\ tags = NoRows
    /\ ingredients = NoRows
    /\ nextRecipeId = 1
    /\ nextTagId = 1
    /\ last = NoResponse

Next ==
    \/ \E u \in Requesters : RecipeList(u)
    \/ \E u \in Requesters, id \in RecipeIds : RecipeRetrieve(u, id)
    \/ \E u \in Requesters : RecipeCreate(u)
    \/ \E u \in Requesters, id \in RecipeIds, partial \in BOOLEAN :
          RecipeUpdate(u, id, partial)
    \/ \E u \in Requesters, id \in RecipeIds : RecipeDestroy(u, id)
    \/ \E u \in Requesters : TagList(u)
    \/ \E u \in Requesters, id \in TagIds, partial \in BOOLEAN :
          TagUpdate(u, id, partial)
    \/ \E u \in Requesters, id \in TagIds : TagDestroy(u, id)
    \/ Receive

Spec == Init /\ [][Next]_vars

\* ------------------------------------------------------------- properties
DetailActions == {"retrieve", "update", "partial_update", "destroy"}

OwnTags(tbl, u) == {t \in DOMAIN tbl : tbl[t].user = u}

TagsNamed(tbl, u, names) ==
    {t \in DOMAIN tbl : tbl[t].user = u /\ tbl[t].name \in names}

\* C1: an authenticated user's retrieve, PUT, PATCH or DELETE of a recipe,
\* or PUT, PATCH or DELETE of a tag, that another user owns answers 404 and
\* leaves that object as it was: its row, its associations, its existence
\* (the request changes no row at all).
C1_CrossUserDetailIs404 ==
    [][LET r == last'.req
       IN  (/\ Idle
            /\ last' # NoResponse
            /\ r.user \in Users
            /\ r.action \in DetailActions
            /\ \/ /\ r.view = "recipe"
                  /\ r.id \in DOMAIN recipes
                  /\ recipes[r.id]["user"] # r.user
               \/ /\ r.view = "tag"
                  /\ r.id \in DOMAIN tags
                  /\ tags[r.id].user # r.user)
           => /\ last'.status = 404
              /\ last'.body = <<>>
              /\ recipes' = recipes
              /\ tags' = tags]_vars

\* A user has sent a PATCH for a recipe of another user, who has tagged it,
\* and got 404.
C1_Witness ==
    /\ last.req.view = "recipe"
    /\ last.req.action = "partial_update"
    /\ last.req.user \in Users
    /\ last.req.id \in DOMAIN recipes
    /\ recipes[last.req.id]["user"] # last.req.user
    /\ recipes[last.req.id]["tags"] # {}
    /\ last.status = 404

\* C2: every tag associated with a recipe is a row of the tag table owned by
\* the recipe's owner; so a name another user already has is never linked
\* across users.
C2_TagsOwnedByRecipeOwner ==
    \A r \in DOMAIN recipes : \A t \in recipes[r]["tags"] :
        t \in DOMAIN tags /\ tags[t].user = recipes[r]["user"]

\* Two users each have a recipe tagged with a tag of the same name.
C2_Witness ==
    \E r1, r2 \in DOMAIN recipes :
        /\ recipes[r1]["user"] # recipes[r2]["user"]
        /\ \E t1 \in recipes[r1]["tags"], t2 \in recipes[r2]["tags"] :
              t1 # t2 /\ tags[t1].name = tags[t2].name

\* C3: no two Tag rows of one user have the same name.
C3_TagsUniquePerUser ==
    \A t1, t2 \in DOMAIN tags :
        (tags[t1].user = tags[t2].user /\ tags[t1].name = tags[t2].name)
            => t1 = t2

\* C4: a recipe create that carries a tag list and reaches the serializer
\* links the new recipe to exactly the requester's tags of the payload's
\* names, leaves every existing Tag row as it was, creates only tags of the
\* requester with previously unknown names, and makes the requester's tags
\* grow by the number of distinct previously unknown names.
C4_CreateReusesOrCreatesTags ==
    [][LET r == last'.req
           names == Range(r.data["tags"])
           known == {n \in names : TagsNamed(tags, r.user, {n}) # {}}
       IN  (/\ Idle
            /\ r.view = "recipe"
            /\ r.action = "create"
            /\ "tags" \in DOMAIN r.data
            /\ last'.status \notin {400, 401})
           => /\ nextRecipeId \in DOMAIN recipes'
              /\ recipes'[nextRecipeId]["tags"] = TagsNamed(tags', r.user, names)
              /\ \A t \in DOMAIN tags : t \in DOMAIN tags' /\ tags'[t] = tags[t]
              /\ \A t \in DOMAIN tags' \ DOMAIN tags :
                    tags'[t].user = r.user /\ tags'[t].name \in names \ known
              /\ Cardinality(OwnTags(tags', r.user))
                   = Cardinality(OwnTags(tags, r.user))
                     + Cardinality(names \ known)]_vars

\* C5: a PUT or PATCH of an owned recipe that carries a tag list and reaches
\* the serializer leaves the recipe with exactly the requester's tags of the
\* payload's names (none, for an empty list).
C5_UpdateReplacesTags ==
    [][LET r == last'.req
           names == Range(r.data["tags"])
       IN  (/\ Idle
            /\ r.view = "recipe"
            /\ r.action \in {"update", "partial_update"}
            /\ "tags" \in DOMAIN r.data
            /\ last'.status \notin {400, 401, 404})
           => /\ r.id \in DOMAIN recipes'
              /\ recipes'[r.id]["tags"] = TagsNamed(tags', r.user, names)
              /\ \A t \in recipes[r.id]["tags"] :
                    tags[t].name \notin names => t \notin recipes'[r.id]["tags"]
              /\ r.data["tags"] = <<>> => recipes'[r.id]["tags"] = {}]_vars

\* C6: a recipe's owner is the authenticated user of the create request that
\* made it, and no later request changes it.
C6_OwnerFixedAtCreation ==
    [][/\ \A r \in DOMAIN recipes \cap DOMAIN recipes' :
             recipes'[r]["user"] = recipes[r]["user"]
       /\ \A r \in DOMAIN recipes' \ DOMAIN recipes :
             /\ last'.req.action = "create"
             /\ last'.req.user \in Users
             /\ recipes'[r]["user"] = last'.req.user]_vars

\* An owner's PUT or PATCH whose body names another user as `user` has been
\* answered 200.
C6_Witness ==
    /\ last.req.view = "recipe"
    /\ last.req.action \in {"update", "partial_update"}
    /\ last.status = 200
    /\ "user" \in DOMAIN last.req.data
    /\ last.req.data["user"] \in Users \ {last.req.user}
    /\ recipes[last.req.id]["user"] = last.req.user

\* The recipe a successful create or update response is about.
Target == IF last.req.action = "create" THEN last.body[1]["id"] ELSE last.req.id

IngredientsNamed(u, names) ==
    {i \in DOMAIN ingredients :
        ingredients[i].user = u /\ ingredients[i].name \in names}

\* C7: after a successful recipe create or update whose body carries an
\* ingredients list, the recipe's ingredients are exactly the requester's
\* ingredients of the payload's names, one for each name.
C7_IngredientsReplaced ==
    (/\ last.req.view = "recipe"
     /\ last.req.action \in {"create", "update", "partial_update"}
     /\ last.status \in {200, 201}
     /\ "ingredients" \in DOMAIN last.req.data)
    => LET names == Range(last.req.data["ingredients"])
       IN  /\ recipes[Target]["ingredients"]
                = IngredientsNamed(last.req.user, names)
           /\ \A n \in names : IngredientsNamed(last.req.user, {n}) # {}

\* C8: the recipe list is the requester's recipes, each once, by descending
\* id; the tag list is the requester's tags, each once, by descending name.
C8_ListsAreOwnAndOrdered ==
    (last.req.action = "list" /\ last.status = 200)
    => LET b == last.body
           u == last.req.user
       IN  /\ \A i, j \in DOMAIN b : i < j => b[i]["id"] # b[j]["id"]
           /\ last.req.view = "recipe" =>
                /\ {b[i]["id"] : i \in DOMAIN b}
                     = {r \in DOMAIN recipes : recipes[r]["user"] = u}
                /\ \A i, j \in DOMAIN b : i < j => b[i]["id"] > b[j]["id"]
                /\ \A i \in DOMAIN b : b[i]["title"] = recipes[b[i]["id"]]["title"]
           /\ last.req.view = "tag" =>
                /\ {b[i]["id"] : i \in DOMAIN b} = OwnTags(tags, u)
                /\ \A i \in DOMAIN b : b[i]["name"] = tags[b[i]["id"]].name
                /\ \A i, j \in DOMAIN b : i < j =>
                      NameKey(b[i]["name"]) >= NameKey(b[j]["name"])

\* A user who owns one of two recipes has listed the recipes.
C8_Witness ==
    /\ last.req.view = "recipe"
    /\ last.req.action = "list"
    /\ last.status = 200
    /\ Len(last.body) = 1
    /\ \E r \in DOMAIN recipes : recipes[r]["user"] # last.req.user

\* C9: a recipe in a list response has the fields id, title, time_minutes,
\* price, link and tags; in a retrieve, create, update or partial update
\* response it has these and description.
C9_DescriptionOnlyInDetail ==
    (last.req.view = "recipe" /\ last.status \in {200, 201})
    => \A i \in DOMAIN last.body :
          DOMAIN last.body[i]
            = {"id", "title", "time_minutes", "price", "link", "tags"}
              \cup (IF last.req.action = "list" THEN {} ELSE {"description"})

\* A list response with a recipe in it.
C9_Witness ==
    /\ last.req.view = "recipe"
    /\ last.req.action = "list"
    /\ last.status = 200
    /\ Len(last.body) > 0

\* C10: a request without authentication answers 401 with no data and
\* changes no row.
C10_AnonymousIs401 ==
    [][(Idle /\ last' # NoResponse /\ last'.req.user = Anon)
       => /\ last'.status = 401
          /\ last'.body = <<>>
          /\ recipes' = recipes
          /\ tags' = tags
          /\ ingredients' = ingredients]_vars

\* An anonymous DELETE of an existing recipe has been answered 401.
C10_Witness ==
    /\ last.req.user = Anon
    /\ last.req.view = "recipe"
    /\ last.req.action = "destroy"
    /\ last.req.id \in DOMAIN recipes
    /\ last.status = 401

\* The columns of Recipe other than its tag associations.
ScalarColumns == RecipeColumns \ {"tags"}

\* C11: a PATCH of a recipe the requester owns changes only what the body
\* supplies: every column the body does not name keeps its value, and when
\* the body has no tags key the recipe's tags are as they were and the Tag
\* table is unchanged; on success the supplied title is the new title.
C11_PatchChangesOnlySupplied ==
    [][LET r == last'.req
       IN  (/\ Idle
            /\ r.view = "recipe"
            /\ r.action = "partial_update"
            /\ last'.status \notin {401, 404})
           => /\ r.id \in DOMAIN recipes'
              /\ \A k \in ScalarColumns \ DOMAIN r.data :
                    recipes'[r.id][k] = recipes[r.id][k]
              /\ "tags" \notin DOMAIN r.data =>
                    /\ recipes'[r.id]["tags"] = recipes[r.id]["tags"]
                    /\ tags' = tags
                    /\ nextTagId' = nextTagId
              /\ (last'.status = 200 /\ "title" \in DOMAIN r.data) =>
                    recipes'[r.id]["title"] = r.data["title"]]_vars

\* A PATCH that names neither title nor tags has been answered 200 for a
\* recipe whose title is not the one a tagged create gives and that has a tag.
C11_Witness ==
    /\ last.req.view = "recipe"
    /\ last.req.action = "partial_update"
    /\ last.status = 200
    /\ DOMAIN last.req.data = {"price"}
    /\ recipes[last.req.id]["title"] = "t2"
    /\ recipes[last.req.id]["tags"] # {}

\* The recipes a request is allowed to change: the one it addresses by id.
Addressed(r) ==
    IF r.action \in {"update", "partial_update", "destroy"} THEN {r.id} ELSE {}

\* C12: a request to the recipe endpoints deletes no Tag row and changes no
\* Tag row's name or owner, and leaves every recipe other than the one it
\* addresses with its fields and tags as they were; a DELETE of a recipe the
\* requester owns answers 204 and removes that recipe.
C12_RecipeOpsKeepTagsAndOthers ==
    [][LET r == last'.req
       IN  (Idle /\ r.view = "recipe")
           => /\ \A t \in DOMAIN tags : t \in DOMAIN tags' /\ tags'[t] = tags[t]
              /\ \A o \in DOMAIN recipes \ Addressed(r) :
                    o \in DOMAIN recipes' /\ recipes'[o] = recipes[o]
              /\ (/\ r.action = "destroy"
                  /\ r.id \in DOMAIN recipes
                  /\ recipes[r.id]["user"] = r.user)
                 => /\ last'.status = 204
                    /\ r.id \notin DOMAIN recipes'
                    /\ DOMAIN recipes' = DOMAIN recipes \ {r.id}]_vars

\* A DELETE has been answered 204 and removed its recipe, while another recipe
\* still has a tag and a Tag row that no recipe has is still there.
C12_Witness ==
    /\ last.req.view = "recipe"
    /\ last.req.action = "destroy"
    /\ last.status = 204
    /\ last.req.id \notin DOMAIN recipes
    /\ \E o \in DOMAIN recipes : recipes[o]["tags"] # {}
    /\ \E t \in DOMAIN tags : \A o \in DOMAIN recipes : t \notin recipes[o]["tags"]

====
